---- MODULE Spec2Model ----
(***************************************************************************)
(* Magic Storybook: the touchscreen session controller of                  *)
(* storybook_ui.py (class Storybook, class VoiceListener, main) and the    *)
(* console generation client of storybook.py (generate_story, main).       *)
(*                                                                         *)
(* The repository has two entry points.  Init draws which one runs         *)
(* (program = "ui" or "console"); the actions of one never fire in a       *)
(* behaviour of the other.                                                 *)
(***************************************************************************)
EXTENDS Integers, Sequences, FiniteSets, TLC

(* ---------------------------------------------------------------------- *)
(* Program constants                                                       *)
(* ---------------------------------------------------------------------- *)
MAX_RETRIES == 3
SCREEN_WIDTH == 600
SCREEN_HEIGHT == 1024
PAGE_TOP_MARGIN == 20
PAGE_BOTTOM_MARGIN == 20
PAGE_NAV_HEIGHT == 100
PARAGRAPH_SPACING == 20
EXTRA_LINE_SPACING == 4
button_width == 200
button_height == 80
CORNER_SIZE == 50
CORNER_TAPS_TO_EXIT == 3
\* _cleanup is called by run's finally and by main's finally
CLEANUP_CALLS == 2
\* the 3-second window of line 768, in half seconds
CORNER_WINDOW == 6

(* ---------------------------------------------------------------------- *)
(* Bounds of the model                                                     *)
(* ---------------------------------------------------------------------- *)
\* stories the library may hold before the model stops starting pipelines
MaxStories == 2
\* events one pygame.event.get() may return
MaxBatch == 2
\* listen threads that may be alive at once
MaxWorkers == 2
\* pagination alone: paragraphs of a story, wrapped lines of a paragraph,
\* wrapped lines of a title
MaxParas == 3
MaxParaLines == 16
MaxTitleLines == 21
\* _wrap_text alone: words of a text, the width to wrap to, the width of a
\* space and of the widest word, in one unit
MaxWords == 4
WrapWidth == 8
SpaceSize == 1
MaxWordSize == 9
\* strip_markdown alone: characters of a text
MaxText == 4
\* prompts the console main loop tells (test_prompts holds four)
NumPrompts == 4
\* font metrics (pixels): title_font.get_height(), text_font.get_height()
TitleLineH == 43
TextLineH == 26

VARIABLES
    program,        \* which entry point runs: "ui" | "console"
    MODE,           \* config.MODE: "local" | "server"
    pc,             \* position of the foreground thread
    raised,         \* exception propagating out of the foreground code
    \* ---- class Storybook
    stories, pages, current_page, current_story,
    _running, _busy, _sleep_request, _corner_taps,
    listener,       \* [present: self.listener is set, microphone: not released]
    pixels,         \* TRUE iff the NeoPixel strip was initialised
    status,         \* colour last written to the strip
    screen,         \* what the display shows
    visible,        \* Button.visible of back / next / new
    \* ---- handle_events / wait-for-tap loops
    batch,          \* number of events of the list fetched at line 751 not yet iterated
    event,          \* loop variable `event` of handle_events
    btn,            \* index of the button the loop of line 775 looks at next; 0: none left
    caller,         \* who called new_story: "run" | "new" (button) | "next_page"
    inner,          \* number of events fetched by a wait-for-tap loop not yet iterated
    wevent,         \* loop variable `event` of a wait-for-tap loop
    \* ---- new_story locals and the listen threads
    workers,        \* the listen threads
    cur,            \* the thread new_story joins
    prompt, story,
    \* ---- load_story locals
    ld,
    \* ---- _cleanup
    cleanups,       \* completed _cleanup calls
    \* ---- storybook.py generate_story / main
    promptIdx, attempt, outcomes, requests, sleeps, g_story,
    \* ---- observation of calls made
    started,        \* TRUE iff thread.start() was called since the last poll of handle_events
    \* ---- _wrap_text locals, strip_markdown's text
    wrap,           \* [words, i: index of the word the loop is at, current_line, lines]
    text            \* the characters of strip_markdown's argument, then of its result

ctlVars == <<program, MODE, pc, raised>>
bookVars == <<stories, pages, current_page, current_story>>
flagVars == <<_running, _busy, _sleep_request>>
sinkVars == <<pixels, status, screen, visible>>
evVars == <<batch, event, btn, caller, _corner_taps, inner, wevent>>
nsVars == <<workers, cur, prompt, story, listener>>
conVars == <<promptIdx, attempt, outcomes, requests, sleeps, g_story>>
obsVars == <<started, cleanups, ld>>

fnVars == <<wrap, text>>

vars == <<ctlVars, bookVars, flagVars, sinkVars, evVars, nsVars, conVars, obsVars,
          fnVars>>

(* ---------------------------------------------------------------------- *)
(* storybook.py: generate_story                                            *)
(* ---------------------------------------------------------------------- *)
\* what one requests.post attempt can end in
Outcomes == {"ok", "timeout", "connection_error", "http_error", "malformed"}

\* the value Python's None
None == "None"

\* return of lines 70-79
UnreachableFallback(mode) ==
    IF mode = "server" THEN "cant_reach_story_server" ELSE "storyteller_is_sleeping"

\* return of lines 83-86
GenericFallback(mode) ==
    IF mode = "server" THEN "server_having_trouble" ELSE "magic_had_a_hiccup"

\* the texts generate_story can return
Fallbacks == {UnreachableFallback(m) : m \in {"local", "server"}}
                \cup {GenericFallback(m) : m \in {"local", "server"}}

IsText(v) == v \in Fallbacks \cup {"story_text"}

\* a variant of line 64 that also retries after the last attempt
RetryAllowed_afterLast(a) == a < MAX_RETRIES

\* line 64: a timeout is retried while attempts remain
RetryAllowed(a) == a < MAX_RETRIES - 1

\* a variant of lines 81-86 that answers with the sentence of lines 70-79
OuterExcept_unreachable(mode) == UnreachableFallback(mode)

\* lines 81-86: what the outer handler returns for an exception that reaches it
OuterExcept(mode) == GenericFallback(mode)

\* a variant of lines 69-79 that treats a connection error like a timeout
OnConnectionError_retrying(mode) ==
    [retry |-> TRUE, ret |-> UnreachableFallback(mode)]

\* lines 69-79: what a connection error makes of the call:
\* [retry |-> whether another attempt follows, ret |-> the value returned]
OnConnectionError(mode) == [retry |-> FALSE, ret |-> UnreachableFallback(mode)]

\* line 61: story.strip() of the response's text field
OnSuccess == "story_text"

ConsoleUnchanged ==
    UNCHANGED <<fnVars, program, MODE, raised, bookVars, flagVars, sinkVars, evVars,
                nsVars, obsVars>>

\* storybook.py main, lines 171-188: check_connection decides whether any story is told
c_main_start ==
    /\ program = "console" /\ pc = "c_main"
    /\ \/ pc' = "c_call" /\ promptIdx' = 1
       \/ pc' = "done" /\ UNCHANGED promptIdx
    /\ UNCHANGED <<attempt, outcomes, requests, sleeps, g_story>>
    /\ ConsoleUnchanged

\* storybook.py main line 203 calling generate_story: line 40, the loop starts
c_generate_story ==
    /\ program = "console" /\ pc = "c_call"
    /\ attempt' = 0 /\ outcomes' = <<>> /\ requests' = 0 /\ sleeps' = 0
    /\ g_story' = "unset"
    /\ pc' = "g_request"
    /\ UNCHANGED promptIdx
    /\ ConsoleUnchanged

\* generate_story lines 41-86: one requests.post and the handling of its outcome
g_post ==
    /\ program = "console" /\ pc = "g_request"
    /\ \E o \in Outcomes :
        /\ requests' = requests + 1
        /\ outcomes' = Append(outcomes, o)
        /\ CASE o = "ok" ->
                    g_story' = OnSuccess /\ pc' = "g_returned"
             [] o = "timeout" ->
                    IF RetryAllowed(attempt)
                    THEN pc' = "g_sleep" /\ UNCHANGED g_story
                    ELSE g_story' = OuterExcept(MODE) /\ pc' = "g_returned"
             [] o = "connection_error" ->
                    IF OnConnectionError(MODE).retry
                    THEN pc' = "g_sleep" /\ UNCHANGED g_story
                    ELSE g_story' = OnConnectionError(MODE).ret /\ pc' = "g_returned"
             [] OTHER ->
                    g_story' = OuterExcept(MODE) /\ pc' = "g_returned"
    /\ UNCHANGED <<promptIdx, attempt, sleeps>>
    /\ ConsoleUnchanged

\* generate_story line 66 and the loop header of line 40: sleep, then the next
\* attempt; a loop that runs out of attempts falls off the function's end
g_sleep ==
    /\ program = "console" /\ pc = "g_sleep"
    /\ sleeps' = sleeps + 1
    /\ attempt' = attempt + 1
    /\ IF attempt + 1 < MAX_RETRIES
       THEN pc' = "g_request" /\ UNCHANGED g_story
       ELSE pc' = "g_returned" /\ g_story' = None
    /\ UNCHANGED <<promptIdx, outcomes, requests>>
    /\ ConsoleUnchanged

\* storybook.py main lines 198-206: print the story, sleep, next prompt
c_main_next ==
    /\ program = "console" /\ pc = "g_returned"
    /\ IF promptIdx < NumPrompts
       THEN pc' = "c_call" /\ promptIdx' = promptIdx + 1
       ELSE pc' = "done" /\ UNCHANGED promptIdx
    /\ UNCHANGED <<attempt, outcomes, requests, sleeps, g_story>>
    /\ ConsoleUnchanged


(* ---------------------------------------------------------------------- *)
(* storybook_ui.py: input events, buttons, status and display sinks        *)
(* ---------------------------------------------------------------------- *)
NullEvent == [type |-> "none"]
QuitEvent == [type |-> "quit"]
EscEvent == [type |-> "keydown", key |-> "escape"]
Tap(p) == [type |-> "mousedown", button |-> 1, pos |-> p]

\* representative pointer positions: inside Back, on the edge Back shares with
\* Next, inside Next, inside New, and inside the secret-exit corner
TapPositions == {<<100, 960>>, <<200, 960>>, <<300, 960>>, <<500, 960>>, <<560, 10>>}

Events == {QuitEvent, EscEvent} \cup {Tap(p) : p \in TapPositions}

\* pygame.event.get() returns a list of events.  Nothing reads an event before
\* the loop over the list reaches it, so the model fixes the length of the list
\* at the call and draws each event when its iteration starts.
BatchSizes == 1..MaxBatch

\* dict order of self.buttons (lines 268-272, 279)
ButtonOrder == <<"back", "next", "new">>

\* __init__ line 275
button_spacing == (SCREEN_WIDTH - 3 * button_width) \div 4

\* __init__ line 276
button_y == SCREEN_HEIGHT - PAGE_NAV_HEIGHT + (PAGE_NAV_HEIGHT - button_height) \div 2

\* __init__ lines 278-286: x of the i-th button
ButtonX(i) == button_spacing + (i - 1) * (button_width + button_spacing)

\* Button.is_in_bounds
is_in_bounds(i, pos) ==
    /\ ButtonX(i) <= pos[1] /\ pos[1] <= ButtonX(i) + button_width
    /\ button_y <= pos[2] /\ pos[2] <= button_y + button_height

\* the buttons from the i-th on whose bounds hold the position
InBoundsFrom(i, pos) == {j \in i..Len(ButtonOrder) : is_in_bounds(j, pos)}

\* the loop variable once button i was looked at: the next button whose bounds
\* hold the position (the buttons between fail the test of line 776 whatever
\* they show), 0 when there is none and the loop over the buttons ends
NextButton(i, pos) ==
    IF InBoundsFrom(i + 1, pos) = {} THEN 0
    ELSE CHOOSE j \in InBoundsFrom(i + 1, pos) : \A k \in InBoundsFrom(i + 1, pos) : j <= k

\* handle_events line 765
InCorner(pos) == pos[1] > SCREEN_WIDTH - CORNER_SIZE /\ pos[2] < CORNER_SIZE

\* time that may have passed between two reads of time.time(), in half seconds
Elapsed == {2, 3, 5}

Min(a, b) == IF a < b THEN a ELSE b

\* a variant of line 768 that keeps a tap until it is older than the window
InWindow_inclusive(age) == age <= CORNER_WINDOW

\* handle_events line 768: time.time() - t < 3
InWindow(age) == age < CORNER_WINDOW

RECURSIVE SelectAges(_)
\* handle_events lines 767-768: keep the taps younger than the window
SelectAges(ages) ==
    IF ages = <<>> THEN <<>>
    ELSE IF InWindow(Head(ages))
         THEN <<Head(ages)>> \o SelectAges(Tail(ages))
         ELSE SelectAges(Tail(ages))

\* handle_events lines 766-768: _corner_taps holds each tap's age at the last
\* read of the clock; d half seconds later the new tap is appended and the
\* list pruned
CornerTaps(ages, d) ==
    SelectAges([i \in 1..Len(ages) |-> Min(ages[i] + d, CORNER_WINDOW)] \o <<0>>)

\* _set_status_color: the colour the strip shows after asking for colour c
SetStatus(c) == IF pixels THEN c ELSE status

(* ---------------------------------------------------------------------- *)
(* Stories and pagination (load_story, _create_page)                       *)
(* A story text is taken as already measured: the number of lines its      *)
(* title wraps to and the number of lines each paragraph wraps to.         *)
(* ---------------------------------------------------------------------- *)
\* generate_story line 465: the fallback story
OopsStory == [id |-> "oops", title |-> 1, paras |-> <<2>>]

\* a story of the backend that fills more than one page
LongStory == [id |-> "long", title |-> 1, paras |-> <<20, 12, 1>>]

BackendTexts == {LongStory}

\* Python's None where a story text is expected, and a local not yet assigned
NoneStory == [id |-> "None", title |-> 0, paras |-> <<>>]
UnsetStory == [id |-> "unset", title |-> 0, paras |-> <<>>]

\* text_area['height'], line 293
PageHeight == SCREEN_HEIGHT - PAGE_NAV_HEIGHT - PAGE_TOP_MARGIN - PAGE_BOTTOM_MARGIN

\* _create_page: a page is its title lines and the tops of its body lines
create_page(titleLines) ==
    [title |-> [i \in 1..titleLines |-> (i - 1) * TitleLineH], lines |-> <<>>]

RECURSIVE PlaceLines(_, _)
\* load_story lines 503-513: n lines of a paragraph laid on st = [pages, page, y]
PlaceLines(n, st) ==
    IF n = 0 THEN st
    ELSE LET brk == st.y + TextLineH > PageHeight
             pgs == IF brk THEN Append(st.pages, st.page) ELSE st.pages
             pg == IF brk THEN create_page(0) ELSE st.page
             y == IF brk THEN 0 ELSE st.y
         IN PlaceLines(n - 1,
                [pages |-> pgs,
                 page |-> [pg EXCEPT !.lines = Append(@, y)],
                 y |-> y + TextLineH + EXTRA_LINE_SPACING])

NoLoad == [ret |-> "none", text |-> <<>>, i |-> 0, page |-> create_page(0), y |-> 0]

\* Python list indexing: pages[i] is defined for -len <= i < len
ValidIndex(i, n) == -n <= i /\ i < n

(* ---------------------------------------------------------------------- *)
(* Listen threads                                                          *)
(* ---------------------------------------------------------------------- *)
NoWorker == [pc |-> "none", result |-> "unset", error |-> FALSE]

Workers == 1..MaxWorkers

FreeSlots == {w \in Workers : workers[w].pc = "none"}

\* the threads inside `with self.microphone` (lines 140-181)
HoldsMic(w) == workers[w].pc = "listen"

\* truthiness of listen_result[0] at line 705
HasPrompt(r) == r = "text"


(* ---------------------------------------------------------------------- *)
(* class Storybook: pieces shared by several operations                    *)
(* ---------------------------------------------------------------------- *)
\* where a button's action returns to: the loop over the buttons (line 775),
\* or the loop over the events (line 751) when no button is left
ButtonRet == IF btn = 0 THEN "events" ELSE "buttons"

\* where new_story returns to: run (line 788) or the button loop (line 777)
RetPc(c) == IF c = "run" THEN "loop" ELSE ButtonRet

\* display_current_page with cursor cp / cs over pages pgs, continuing at next.
\* pages[current_page] (line 557) raises IndexError on a cursor outside the
\* list: _busy stays set and the exception leaves run() through its finally.
\* Sets _busy, raised, pc, screen, visible.
DisplayCurrentPage(cp, cs, pgs, next) ==
    IF pgs # <<>> /\ ~ValidIndex(cp, Len(pgs))
    THEN /\ _busy' = TRUE
         /\ raised' = "IndexError"
         /\ pc' = "cleanup"
         /\ UNCHANGED <<screen, visible>>
    ELSE /\ _busy' = FALSE
         /\ screen' = "page"
         /\ visible' = [visible EXCEPT !.back = @ \/ (cp > 0 \/ cs > 0),
                                       !.next = TRUE, !.new = TRUE]
         /\ pc' = next
         /\ UNCHANGED raised

\* a variant of line 602 that takes the listener for present
ListenerMissing_never(l) == FALSE

\* new_story line 602: not self.listener
ListenerMissing(l) == ~l.present

\* new_story lines 596-611, entered by caller c: the busy check, the missing
\* listener, the prompt message (display_message ends with _busy = False).
\* Sets _busy, screen, pc, caller.
NewStoryEntry(c) ==
    IF _busy
    THEN /\ pc' = RetPc(c)'
         /\ caller' = "none"
         /\ UNCHANGED <<_busy, screen>>
    ELSE IF ListenerMissing(listener)
    THEN /\ _busy' = FALSE
         /\ screen' = "msg_unavailable"
         /\ pc' = "ns_nolistener"
         /\ caller' = c
    ELSE /\ Len(stories) < MaxStories
         /\ _busy' = FALSE
         /\ screen' = "msg_idea"
         /\ pc' = "ns_prompted"
         /\ caller' = c

\* new_story returning without a redisplay (lines 615-616, 702-703, 732-733,
\* 744-745).  Sets _busy, pc, caller, cur, prompt, story.
InterruptedReturn ==
    /\ _busy' = FALSE
    /\ pc' = RetPc(caller)
    /\ caller' = "none"
    /\ cur' = 0 /\ prompt' = "unset" /\ story' = UnsetStory

\* new_story lines 605, 669-673 (691-695, 720-724): back to the page or the
\* welcome screen, then return.
\* Sets _busy, raised, pc, screen, visible, caller, cur, prompt, story.
RedisplayAndReturn ==
    /\ IF pages # <<>>
       THEN DisplayCurrentPage(current_page, current_story, pages, RetPc(caller))
       ELSE /\ screen' = "welcome"
            /\ pc' = RetPc(caller)
            /\ UNCHANGED <<_busy, raised, visible>>
    /\ IF raised' = "none"
       THEN caller' = "none" /\ cur' = 0 /\ prompt' = "unset" /\ story' = UnsetStory
       ELSE UNCHANGED <<caller, cur, prompt, story>>

\* new_story lines 648-658 (676-680, 705-709): the error message of a failed
\* capture, then the wait for a tap.  Sets status, screen, _busy, pc, inner, wevent.
ErrorDisplay(msg) ==
    /\ status' = SetStatus("reading")
    /\ screen' = msg
    /\ _busy' = FALSE
    /\ pc' = "ns_wait"
    /\ inner' = 0 /\ wevent' = NullEvent

\* a variant of line 477 that keeps the pages of the story loaded before
FreshPages_kept(pgs) == pgs

\* load_story line 477: self.pages = [], whatever the pages were
FreshPages(pgs) == <<>>

\* load_story lines 476-491 for story text t, continuing at ret when done.
\* Sets _busy, pages, ld, pc.
LoadBegin(t, ret) ==
    /\ _busy' = TRUE
    /\ pages' = FreshPages(pages)
    /\ ld' = [ret |-> ret, text |-> t.paras, i |-> 1,
              page |-> create_page(t.title), y |-> TitleLineH + PARAGRAPH_SPACING]
    /\ pc' = "load"

(* ---------------------------------------------------------------------- *)
(* _wrap_text                                                              *)
(* A word is its place in text.split(' ') and the width the font gives it; *)
(* the width of a line is taken as the widths of its words and of the      *)
(* spaces between them.                                                    *)
(* ---------------------------------------------------------------------- *)
NoWrap == [words |-> <<>>, i |-> 0, current_line |-> <<>>, lines |-> <<>>]

\* widths of words: the empty string between two spaces, two words that fit a
\* line together, one that fits, one wider than the line
WordSizes == {0, 3, 5, MaxWordSize}

\* text.split(' ') (line 405): never the empty list
WordLists ==
    UNION {{[k \in 1..n |-> [id |-> k, size |-> f[k]]] : f \in [1..n -> WordSizes]} :
             n \in 1..MaxWords}

RECURSIVE SumSizes(_)
SumSizes(line) == IF line = <<>> THEN 0 ELSE Head(line).size + SumSizes(Tail(line))

\* font.size(' '.join(line))[0], lines 411-412
LineSize(line) ==
    IF line = <<>> THEN 0 ELSE SumSizes(line) + SpaceSize * (Len(line) - 1)

\* a variant of lines 415-416 and 419-420 that keeps a line only if it fits
FlushLine_fitting(lines, current_line) ==
    IF current_line # <<>> /\ LineSize(current_line) <= WrapWidth
    THEN Append(lines, current_line) ELSE lines

\* lines 415-416 and 419-420: if current_line: lines.append(' '.join(current_line))
FlushLine(lines, current_line) ==
    IF current_line # <<>> THEN Append(lines, current_line) ELSE lines

\* a variant of line 411 that breaks a line that fills the width exactly
Fits_strict(line) == LineSize(line) < WrapWidth

\* _wrap_text line 411: font.size(test_line)[0] <= width
Fits(line) == LineSize(line) <= WrapWidth

\* _wrap_text lines 409-417: one word of the loop
wrap_step ==
    /\ program = "ui" /\ pc = "wrap_text"
    /\ wrap.i <= Len(wrap.words)
    /\ LET word == wrap.words[wrap.i]
           test_line == Append(wrap.current_line, word)
       IN wrap' = IF Fits(test_line)
                  THEN [wrap EXCEPT !.current_line = test_line, !.i = @ + 1]
                  ELSE [wrap EXCEPT !.lines = FlushLine(@, wrap.current_line),
                                    !.current_line = <<word>>, !.i = @ + 1]
    /\ UNCHANGED <<ctlVars, bookVars, flagVars, sinkVars, evVars, nsVars, conVars,
                   obsVars, text>>

\* _wrap_text lines 419-421: the last line, and the return
wrap_return ==
    /\ program = "ui" /\ pc = "wrap_text"
    /\ wrap.i > Len(wrap.words)
    /\ wrap' = [wrap EXCEPT !.lines = FlushLine(@, wrap.current_line)]
    /\ pc' = "wrapped"
    /\ UNCHANGED <<program, MODE, raised, bookVars, flagVars, sinkVars, evVars,
                   nsVars, conVars, obsVars, text>>

(* ---------------------------------------------------------------------- *)
(* strip_markdown                                                          *)
(* A text is the sequence of its characters.                               *)
(* ---------------------------------------------------------------------- *)
\* the characters that matter to the three patterns: the two markers, a
\* letter, a space and a newline (\s matches both, . does not match a newline)
Alphabet == {"#", "*", "a", " ", "\n"}

Texts == UNION {[1..n -> Alphabet] : n \in 0..MaxText}

IsSpace(c) == c \in {" ", "\n"}

\* the longest run of # the pattern of line 469 takes in one match
HashRun == 6

RECURSIVE SkipHashes(_, _)
\* #{1,6}, greedy
SkipHashes(s, n) ==
    IF n > 0 /\ s # <<>> /\ Head(s) = "#" THEN SkipHashes(Tail(s), n - 1) ELSE s

RECURSIVE SkipSpace(_)
\* \s*, greedy
SkipSpace(s) == IF s # <<>> /\ IsSpace(Head(s)) THEN SkipSpace(Tail(s)) ELSE s

RECURSIVE RemoveHeaders(_)
\* line 469: re.sub(r'#{1,6}\s*', '', text)
RemoveHeaders(s) ==
    IF s = <<>> THEN <<>>
    ELSE IF Head(s) = "#" THEN RemoveHeaders(SkipSpace(SkipHashes(s, HashRun)))
    ELSE <<Head(s)>> \o RemoveHeaders(Tail(s))

\* m asterisks start at place k of s
IsMarker(s, k, m) == k + m - 1 <= Len(s) /\ \A d \in 0..(m - 1) : s[k + d] = "*"

\* where a match that opens at place 1 of s can close: m asterisks with no
\* newline between the opening ones and them
Closers(s, m) ==
    {j \in (m + 1)..Len(s) :
        IsMarker(s, j, m) /\ \A k \in (m + 1)..(j - 1) : s[k] # "\n"}

RECURSIVE Unwrap(_, _)
\* lines 470-471: re.sub(r'\*\*(.*?)\*\*', r'\1', text) for m = 2 and
\* re.sub(r'\*(.*?)\*', r'\1', text) for m = 1: the leftmost match, closed at
\* the first place it can close, is replaced by what it encloses, and the
\* search goes on behind it
Unwrap(s, m) ==
    IF s = <<>> THEN <<>>
    ELSE IF IsMarker(s, 1, m) /\ Closers(s, m) # {}
    THEN LET j == CHOOSE c \in Closers(s, m) : \A d \in Closers(s, m) : c <= d
         IN SubSeq(s, m + 1, j - 1) \o Unwrap(SubSeq(s, j + m, Len(s)), m)
    ELSE <<Head(s)>> \o Unwrap(Tail(s), m)

RECURSIVE RStrip(_)
RStrip(s) ==
    IF s # <<>> /\ IsSpace(s[Len(s)]) THEN RStrip(SubSeq(s, 1, Len(s) - 1)) ELSE s

\* line 472: text.strip()
Strip(s) == RStrip(SkipSpace(s))

\* strip_markdown, lines 467-472
strip_markdown ==
    /\ program = "ui" /\ pc = "strip_markdown"
    /\ text' = Strip(Unwrap(Unwrap(RemoveHeaders(text), 2), 1))
    /\ pc' = "stripped"
    /\ UNCHANGED <<program, MODE, raised, bookVars, flagVars, sinkVars, evVars,
                   nsVars, conVars, obsVars, wrap>>

(* ---------------------------------------------------------------------- *)
(* run                                                                     *)
(* ---------------------------------------------------------------------- *)
\* run lines 782-784: the welcome screen, then sleep(2)
run_welcome ==
    /\ program = "ui" /\ pc = "run"
    /\ screen' = "welcome"
    /\ pc' = "run_sleep"
    /\ UNCHANGED <<fnVars, program, MODE, raised, bookVars, flagVars, pixels, status,
                   visible, evVars, nsVars, conVars, obsVars>>

\* run lines 786-788: the first story, unless shutdown was requested
run_first_story ==
    /\ program = "ui" /\ pc = "run_sleep"
    /\ IF ~_sleep_request
       THEN NewStoryEntry("run")
       ELSE pc' = "loop" /\ UNCHANGED <<_busy, screen, caller>>
    /\ UNCHANGED <<fnVars, program, MODE, raised, bookVars, _running, _sleep_request,
                   pixels, status, visible, batch, event, btn, _corner_taps,
                   inner, wevent, nsVars, conVars, obsVars>>

\* run lines 791-797: the loop test; one pygame.event.get() of handle_events
\* (line 751) when running, the finally clause when not
loop_poll ==
    /\ program = "ui" /\ pc = "loop"
    /\ IF _running
       THEN /\ batch' \in BatchSizes
            /\ pc' = "events"
            /\ started' = FALSE
       ELSE /\ pc' = "cleanup"
            /\ UNCHANGED <<batch, started>>
    /\ UNCHANGED <<fnVars, program, MODE, raised, bookVars, flagVars, sinkVars,
                   event, btn, caller, _corner_taps, inner, wevent,
                   nsVars, conVars, cleanups, ld>>

(* ---------------------------------------------------------------------- *)
(* handle_events                                                           *)
(* ---------------------------------------------------------------------- *)
\* handle_events lines 751-772: the next event of the list; quit and ESC clear
\* _running, a pointer-down goes through the secret-exit check to the buttons
handle_event ==
    /\ program = "ui" /\ pc = "events"
    /\ IF batch = 0
       THEN /\ pc' = "loop"
            /\ event' = NullEvent
            /\ UNCHANGED <<batch, btn, _running, _corner_taps>>
       ELSE \E e \in Events :
            /\ event' = e
            /\ IF e.type = "quit" \/ (e.type = "keydown" /\ e.key = "escape")
               THEN /\ _running' = FALSE
                    /\ batch' = batch - 1
                    /\ UNCHANGED <<pc, btn, _corner_taps>>
               ELSE IF e.type = "mousedown" /\ e.button = 1
               THEN IF InCorner(e.pos)
                    THEN \E d \in Elapsed :
                         LET taps == CornerTaps(_corner_taps, d) IN
                         /\ _corner_taps' = taps
                         /\ IF Len(taps) >= CORNER_TAPS_TO_EXIT
                            THEN /\ _running' = FALSE
                                 /\ pc' = "loop"
                                 /\ batch' = 0
                                 /\ UNCHANGED btn
                            ELSE /\ btn' = NextButton(0, e.pos)
                                 /\ pc' = ButtonRet'
                                 /\ batch' = batch - 1
                                 /\ UNCHANGED _running
                    ELSE /\ btn' = NextButton(0, e.pos)
                         /\ pc' = ButtonRet'
                         /\ batch' = batch - 1
                         /\ UNCHANGED <<_running, _corner_taps>>
               ELSE /\ batch' = batch - 1
                    /\ UNCHANGED <<pc, btn, _running, _corner_taps>>
    /\ UNCHANGED <<fnVars, program, MODE, raised, bookVars, _busy, _sleep_request,
                   sinkVars, caller, inner, wevent, nsVars, conVars, obsVars>>

\* the buttons the loop of lines 775-777 still has to look at that the event hits
Hit == {i \in InBoundsFrom(btn, event.pos) : visible[ButtonOrder[i]]}

FirstHit == CHOOSE i \in Hit : \A j \in Hit : i <= j

\* self.stories[i], i counted from 0 as the code does
StoryAt(i) == stories[i + 1]

\* a variant of line 572 that also steps back from page 0
HasEarlierPage_fromZero(cp) == cp >= 0

\* previous_page line 572
HasEarlierPage(cp) == cp > 0

\* previous_page, lines 570-579
previous_page ==
    IF HasEarlierPage(current_page)
    THEN /\ current_page' = current_page - 1
         /\ DisplayCurrentPage(current_page - 1, current_story, pages, ButtonRet')
         /\ UNCHANGED <<stories, pages, current_story, ld>>
    ELSE IF current_story > 0
    THEN /\ current_story' = current_story - 1
         /\ LoadBegin(StoryAt(current_story - 1), "previous_page")
         /\ UNCHANGED <<stories, current_page, raised, screen, visible>>
    ELSE /\ DisplayCurrentPage(current_page, current_story, pages, ButtonRet')
         /\ UNCHANGED <<bookVars, ld>>

\* next_page, lines 581-594
next_page ==
    /\ current_page' = current_page + 1
    /\ IF current_page + 1 >= Len(pages)
       THEN IF current_story < Len(stories) - 1
            THEN /\ current_story' = current_story + 1
                 /\ LoadBegin(StoryAt(current_story + 1), "next_page")
                 /\ UNCHANGED <<stories, raised, screen, visible, caller>>
            ELSE /\ NewStoryEntry("next_page")
                 /\ UNCHANGED <<stories, pages, current_story, raised, visible, ld>>
       ELSE /\ DisplayCurrentPage(current_page + 1, current_story, pages, ButtonRet')
            /\ UNCHANGED <<stories, pages, current_story, ld, caller>>

\* handle_events lines 775-777: the action of the next visible button the
\* pointer position is in; the loop goes on after the action returns
button_step ==
    /\ program = "ui" /\ pc = "buttons"
    /\ btn' = IF Hit = {} THEN 0 ELSE NextButton(FirstHit, event.pos)
    /\ event' = IF btn' = 0 THEN NullEvent ELSE event
    /\ IF Hit = {}
       THEN /\ pc' = "events"
            /\ UNCHANGED <<bookVars, _busy, raised, screen, visible, caller, ld>>
       ELSE CASE ButtonOrder[FirstHit] = "back" ->
                        previous_page /\ UNCHANGED caller
                 [] ButtonOrder[FirstHit] = "next" ->
                        next_page
                 [] OTHER ->
                        /\ NewStoryEntry("new")
                        /\ UNCHANGED <<bookVars, raised, visible, ld>>
    /\ UNCHANGED <<fnVars, program, MODE, _running, _sleep_request, pixels, status,
                   batch, _corner_taps, inner, wevent, nsVars, conVars,
                   started, cleanups>>


(* ---------------------------------------------------------------------- *)
(* new_story                                                               *)
(* ---------------------------------------------------------------------- *)
\* new_story lines 602-606 with no listener: after sleep(3), redisplay and return
ns_unavailable ==
    /\ program = "ui" /\ pc = "ns_nolistener"
    /\ RedisplayAndReturn
    /\ UNCHANGED <<fnVars, program, MODE, bookVars, _running, _sleep_request, pixels,
                   status, batch, event, btn, _corner_taps, inner, wevent,
                   workers, listener, conVars, obsVars>>

\* new_story lines 611-642: after sleep(1), the interrupt check, then
\* thread.start() of a listen thread
ns_start_listening ==
    /\ program = "ui" /\ pc = "ns_prompted"
    /\ IF _sleep_request
       THEN /\ InterruptedReturn
            /\ UNCHANGED <<workers, started>>
       ELSE /\ FreeSlots # {}
            /\ LET w == CHOOSE x \in FreeSlots : \A y \in FreeSlots : x <= y IN
               /\ workers' = [workers EXCEPT ![w] = [NoWorker EXCEPT !.pc = "settle"]]
               /\ cur' = w
            /\ started' = TRUE
            /\ pc' = "ns_join"
            /\ UNCHANGED <<_busy, caller, prompt, story>>
    /\ UNCHANGED <<fnVars, program, MODE, raised, bookVars, _running, _sleep_request,
                   sinkVars, batch, event, btn, _corner_taps, inner, wevent,
                   listener, conVars, cleanups, ld>>

\* a variant of line 645 that joins without a timeout
JoinHasTimeout_none == FALSE

\* line 645: thread.join(timeout=VOICE_TIMEOUT) returns after VOICE_TIMEOUT
\* seconds whether or not the thread has ended
JoinHasTimeout == TRUE

\* new_story lines 645-658: thread.join(timeout=VOICE_TIMEOUT) returns with the
\* thread still alive
ns_join_timeout ==
    /\ program = "ui" /\ pc = "ns_join"
    /\ JoinHasTimeout
    /\ workers[cur].pc # "exited"
    /\ ErrorDisplay("msg_mic")
    /\ cur' = 0
    /\ UNCHANGED <<fnVars, program, MODE, raised, bookVars, _running, _sleep_request,
                   pixels, visible, batch, event, btn, caller, _corner_taps,
                   workers, prompt, story, listener, conVars, obsVars>>

\* new_story lines 645-727: the thread ended within the timeout; its error or
\* its result decides between the error display, the interrupted return and
\* display_loading before generate_story
ns_join_done ==
    /\ program = "ui" /\ pc = "ns_join"
    /\ workers[cur].pc = "exited"
    /\ workers' = [workers EXCEPT ![cur] = NoWorker]
    /\ IF workers[cur].error
       THEN /\ ErrorDisplay("msg_voice_error")
            /\ cur' = 0
            /\ UNCHANGED <<caller, prompt, story>>
       ELSE IF _sleep_request
       THEN /\ InterruptedReturn
            /\ UNCHANGED <<status, screen, inner, wevent>>
       ELSE IF ~HasPrompt(workers[cur].result)
       THEN /\ ErrorDisplay("msg_no_speech")
            /\ prompt' = workers[cur].result
            /\ cur' = 0
            /\ UNCHANGED <<caller, story>>
       ELSE /\ prompt' = workers[cur].result
            /\ screen' = "loading"
            /\ status' = SetStatus("loading")
            /\ pc' = "gen_call"
            /\ cur' = 0
            /\ UNCHANGED <<_busy, caller, story, inner, wevent>>
    /\ UNCHANGED <<fnVars, program, MODE, raised, bookVars, _running, _sleep_request,
                   pixels, visible, batch, event, btn, _corner_taps,
                   listener, conVars, obsVars>>

\* wait-for-tap loop, lines 662-663 (684-685, 713-714): the loop test, then one
\* pygame.event.get(); with _running false the loop ends and new_story
\* redisplays and returns
ns_wait_poll ==
    /\ program = "ui" /\ pc = "ns_wait" /\ inner = 0
    /\ IF _running
       THEN /\ inner' \in BatchSizes
            /\ UNCHANGED <<_busy, raised, pc, screen, visible, caller, cur,
                           prompt, story, wevent>>
       ELSE /\ RedisplayAndReturn
            /\ inner' = 0 /\ wevent' = NullEvent
    /\ UNCHANGED <<fnVars, program, MODE, bookVars, _running, _sleep_request, pixels,
                   status, batch, event, btn, _corner_taps, workers, listener,
                   conVars, obsVars>>

\* wait-for-tap loop, lines 663-673: the next fetched event; a pointer-down
\* ends the wait, any other event is dropped
ns_wait_event ==
    /\ program = "ui" /\ pc = "ns_wait" /\ inner # 0
    /\ \E e \in Events :
       IF e.type = "mousedown"
       THEN /\ RedisplayAndReturn
            /\ inner' = 0
            /\ wevent' = IF raised' = "none" THEN NullEvent ELSE e
       ELSE /\ wevent' = e
            /\ inner' = inner - 1
            /\ UNCHANGED <<_busy, raised, pc, screen, visible, caller, cur,
                           prompt, story>>
    /\ UNCHANGED <<fnVars, program, MODE, bookVars, _running, _sleep_request, pixels,
                   status, batch, event, btn, _corner_taps, workers, listener,
                   conVars, obsVars>>

(* ---------------------------------------------------------------------- *)
(* Storybook.generate_story                                                *)
(* ---------------------------------------------------------------------- *)
\* a variant of lines 463-465 whose handler returns None
UiExcept_none == NoneStory

\* generate_story lines 463-465: the handler of any exception
UiExcept == OopsStory

\* generate_story lines 439-465: the value returned once requests.post ended
\* with outcome o, intr being _sleep_request at line 457.  A timeout or a
\* connection error is raised by requests.post itself, before that check.
UiGenerated(o, intr, response) ==
    IF o \in {"timeout", "connection_error"} THEN UiExcept
    ELSE IF intr THEN NoneStory
    ELSE IF o = "ok" THEN response
    ELSE UiExcept

\* generate_story lines 434-454: the interrupt check, then requests.post
gen_call ==
    /\ program = "ui" /\ pc = "gen_call"
    /\ IF _sleep_request
       THEN story' = NoneStory /\ pc' = "ns_commit"
       ELSE pc' = "gen_inflight" /\ UNCHANGED story
    /\ UNCHANGED <<fnVars, program, MODE, raised, bookVars, flagVars, sinkVars, evVars,
                   workers, cur, prompt, listener, conVars, obsVars>>

\* generate_story lines 439-465: the request ends and generate_story returns
gen_response ==
    /\ program = "ui" /\ pc = "gen_inflight"
    /\ \E o \in Outcomes, t \in BackendTexts :
            story' = UiGenerated(o, _sleep_request, t)
    /\ pc' = "ns_commit"
    /\ UNCHANGED <<fnVars, program, MODE, raised, bookVars, flagVars, sinkVars, evVars,
                   workers, cur, prompt, listener, conVars, obsVars>>

\* a variant of line 731 that does not look at the interrupt flag
CommitAllowed_unflagged(intr, st) == st # NoneStory

\* new_story line 731, negated: the story is committed
CommitAllowed(intr, st) == ~(intr \/ st = NoneStory)

\* a variant of line 736 that puts the new story in front
AppendStory_front(ss, st) == <<st>> \o ss

\* new_story line 736: self.stories.append(story)
AppendStory(ss, st) == Append(ss, st)

\* a variant of line 737 that takes the length for the last index
LastStoryIndex_length(ss) == Len(ss)

\* new_story line 737: len(self.stories) - 1
LastStoryIndex(ss) == Len(ss) - 1

\* new_story lines 730-740: the interrupt check, then the append and load_story
ns_commit ==
    /\ program = "ui" /\ pc = "ns_commit"
    /\ IF ~CommitAllowed(_sleep_request, story)
       THEN /\ InterruptedReturn
            /\ UNCHANGED <<bookVars, ld>>
       ELSE /\ stories' = AppendStory(stories, story)
            /\ current_story' = LastStoryIndex(stories')
            /\ current_page' = 0
            /\ LoadBegin(story, "new_story")
            /\ UNCHANGED <<caller, cur, prompt, story>>
    /\ UNCHANGED <<fnVars, program, MODE, raised, _running, _sleep_request, sinkVars,
                   batch, event, btn, _corner_taps, inner, wevent, workers,
                   listener, conVars, started, cleanups>>

(* ---------------------------------------------------------------------- *)
(* load_story                                                              *)
(* ---------------------------------------------------------------------- *)
\* a variant of line 577 that opens the earlier story at its first page
LastPage_first(pgs) == 0

\* previous_page line 577: the cursor on the last page of the earlier story
LastPage(pgs) == Len(pgs) - 1

\* what follows load_story's return in its caller: previous_page lines 577-579,
\* next_page lines 589-594, new_story lines 742-747; pgs is self.pages then.
\* Sets current_page, _busy, raised, pc, screen, visible, caller, cur, prompt, story.
AfterLoad(ret, pgs) ==
    CASE ret = "previous_page" ->
            /\ current_page' = LastPage(pgs)
            /\ DisplayCurrentPage(LastPage(pgs), current_story, pgs, ButtonRet)
            /\ UNCHANGED <<caller, cur, prompt, story>>
      [] ret = "next_page" ->
            /\ current_page' = 0
            /\ DisplayCurrentPage(0, current_story, pgs, ButtonRet)
            /\ UNCHANGED <<caller, cur, prompt, story>>
      [] OTHER ->
            /\ UNCHANGED current_page
            /\ IF _sleep_request
               THEN /\ InterruptedReturn
                    /\ UNCHANGED <<raised, screen, visible>>
               ELSE /\ DisplayCurrentPage(current_page, current_story, pgs, RetPc(caller))
                    /\ IF raised' = "none"
                       THEN caller' = "none" /\ cur' = 0 /\ prompt' = "unset"
                            /\ story' = UnsetStory
                       ELSE UNCHANGED <<caller, cur, prompt, story>>

\* a variant of line 515 that leaves no space between paragraphs
AfterParagraph_tight(y) == y

\* load_story line 515, after the lines of a paragraph
AfterParagraph(y) == y + PARAGRAPH_SPACING

\* a variant of line 517 that keeps the last page only when pages were sealed
\* before it
SealLastPage_continued(pgs, pg) == IF pgs = <<>> THEN pgs ELSE Append(pgs, pg)

\* load_story line 517: the page in progress is appended
SealLastPage(pgs, pg) == Append(pgs, pg)

\* load_story lines 494-519: one paragraph per step; the interrupt check at its
\* start, its lines laid out, and after the last paragraph the page appended
load_step ==
    /\ program = "ui" /\ pc = "load"
    /\ IF ld.i > Len(ld.text)
       THEN /\ pages' = SealLastPage(pages, ld.page)
            /\ status' = SetStatus("reading")
            /\ ld' = NoLoad
            /\ AfterLoad(ld.ret, SealLastPage(pages, ld.page))
       ELSE IF _sleep_request
       THEN /\ ld' = NoLoad
            /\ AfterLoad(ld.ret, pages)
            /\ UNCHANGED <<pages, status>>
       ELSE LET st == PlaceLines(ld.text[ld.i],
                                 [pages |-> pages, page |-> ld.page, y |-> ld.y])
            IN /\ pages' = st.pages
               /\ ld' = [ld EXCEPT !.i = @ + 1, !.page = st.page,
                                   !.y = AfterParagraph(st.y)]
               /\ UNCHANGED <<current_page, _busy, raised, pc, screen, visible,
                              caller, cur, prompt, story, status>>
    /\ UNCHANGED <<fnVars, program, MODE, stories, current_story, _running,
                   _sleep_request, pixels, batch, event, btn, _corner_taps,
                   inner, wevent, workers, listener, conVars, started, cleanups>>


(* ---------------------------------------------------------------------- *)
(* listen_thread / VoiceListener.listen_for_prompt, run by listen thread w *)
(* ---------------------------------------------------------------------- *)
\* the thread ends: new_story reads the result of the thread it joins (lines
\* 626-637, 676, 698); the result of an abandoned thread is read by nobody
WorkerExit(w, res, err) ==
    workers' = [workers EXCEPT ![w] =
                    IF w = cur THEN [pc |-> "exited", result |-> res, error |-> err]
                    ELSE NoWorker]

WorkerUnchanged ==
    UNCHANGED <<fnVars, ctlVars, bookVars, flagVars, pixels, screen, visible, evVars,
                cur, prompt, story, conVars, obsVars>>

\* listen_for_prompt lines 140-145, 178-181: entering `with self.microphone`
\* raises when the microphone was released, is held by another thread or the
\* device fails (deviceOk false); then the interrupt check before listening.
\* The thread's position after it.
AcquireMic(w, deviceOk) ==
    IF ~listener.microphone \/ (\E v \in Workers : HoldsMic(v)) \/ ~deviceOk
    THEN WorkerExit(w, "unset", TRUE)
    ELSE IF _sleep_request
    THEN WorkerExit(w, None, FALSE)
    ELSE workers' = [workers EXCEPT ![w].pc = "listen"]

\* listen_for_prompt lines 130-145 and show_listening line 621: after the
\* settle delay, the interrupt checks that guard the ready callback; with the
\* callback skipped the thread goes on to the microphone
w_settle(w) ==
    /\ program = "ui" /\ workers[w].pc = "settle"
    /\ IF ~_sleep_request
       THEN workers' = [workers EXCEPT ![w].pc = "callback"]
       ELSE \E deviceOk \in BOOLEAN : AcquireMic(w, deviceOk)
    /\ UNCHANGED <<status, listener>>
    /\ WorkerUnchanged

\* show_listening line 622: the status indicator is switched to Waiting; then
\* listen_for_prompt lines 140-145
w_callback(w) ==
    /\ program = "ui" /\ workers[w].pc = "callback"
    /\ status' = SetStatus("waiting")
    /\ \E deviceOk \in BOOLEAN : AcquireMic(w, deviceOk)
    /\ UNCHANGED listener
    /\ WorkerUnchanged

\* listen_for_prompt lines 148-181: recognizer.listen returns audio or raises;
\* after audio, the interrupt check, then recognize_whisper returns a text
\* (which strip() may leave empty) or raises
w_listen(w) ==
    /\ program = "ui" /\ workers[w].pc = "listen"
    /\ \E o \in {"wait_timeout", "listen_exception", "text", "empty",
                 "unknown_value", "recognize_exception"} :
        WorkerExit(w, IF o \in {"text", "empty"} /\ ~_sleep_request THEN o ELSE None,
                   FALSE)
    /\ UNCHANGED <<status, listener>>
    /\ WorkerUnchanged

(* ---------------------------------------------------------------------- *)
(* Shutdown: cleanup_handler, _cleanup, main                               *)
(* ---------------------------------------------------------------------- *)
\* a variant of lines 804 and 843 that clears the flag
SleepRequested_cleared == FALSE

\* the value lines 804 and 843 store in _sleep_request
SleepRequested == TRUE

\* main lines 840-845: SIGINT / SIGTERM
cleanup_handler ==
    /\ program = "ui" /\ pc # "done"
    /\ _running \/ ~_sleep_request
    /\ _sleep_request' = SleepRequested
    /\ _running' = FALSE
    /\ UNCHANGED <<fnVars, ctlVars, bookVars, _busy, sinkVars, evVars, nsVars, conVars,
                   obsVars>>

\* a variant of VoiceListener.cleanup that takes the microphone back when it
\* was released before
ReleaseListener_toggle(l) == IF l.present THEN [l EXCEPT !.microphone = ~@] ELSE l

\* _cleanup lines 807-810 and VoiceListener.cleanup (lines 191-199): the
\* microphone and the recognizer are dropped
ReleaseListener(l) == IF l.present THEN [l EXCEPT !.microphone = FALSE] ELSE l

\* _cleanup lines 803-810: the interrupt flag, then the listener is released
cleanup_begin ==
    /\ program = "ui" /\ pc = "cleanup"
    /\ _sleep_request' = SleepRequested
    /\ listener' = ReleaseListener(listener)
    /\ pc' = "cleanup_wait"
    /\ UNCHANGED <<fnVars, program, MODE, raised, bookVars, _running, _busy, sinkVars,
                   evVars, workers, cur, prompt, story, conVars, obsVars>>

\* a variant of line 815 that waits for _busy without a time limit
BusyWaitEnds_untimed(busy) == ~busy

\* _cleanup line 815: the loop ends when _busy is false or 5 seconds are over
BusyWaitEnds(busy) == ~busy \/ TRUE

\* _cleanup lines 812-831: the wait for _busy ends (cleared, or the grace
\* period over), the strip is switched off, pygame quits; run's finally is
\* followed by main's finally (lines 795-797, 860-862), which calls _cleanup again
cleanup_finish ==
    /\ program = "ui" /\ pc = "cleanup_wait"
    /\ BusyWaitEnds(_busy)
    /\ status' = SetStatus("off")
    /\ screen' = "closed"
    /\ cleanups' = cleanups + 1
    /\ pc' = IF cleanups + 1 < CLEANUP_CALLS THEN "cleanup" ELSE "done"
    /\ UNCHANGED <<fnVars, program, MODE, raised, bookVars, flagVars, pixels, visible,
                   evVars, nsVars, conVars, started, ld>>

(* ---------------------------------------------------------------------- *)
(* Specification                                                           *)
(* ---------------------------------------------------------------------- *)
InitShared ==
    /\ raised = "none"
    /\ stories = <<>> /\ pages = <<>> /\ current_page = 0 /\ current_story = 0
    /\ _running = TRUE /\ _busy = FALSE /\ _sleep_request = FALSE
    /\ _corner_taps = <<>>
    /\ screen = "blank"
    /\ visible = [back |-> FALSE, next |-> FALSE, new |-> FALSE]
    /\ batch = 0 /\ event = NullEvent /\ btn = 0 /\ caller = "none"
    /\ inner = 0 /\ wevent = NullEvent
    /\ workers = [w \in Workers |-> NoWorker]
    /\ cur = 0 /\ prompt = "unset" /\ story = UnsetStory
    /\ ld = NoLoad
    /\ cleanups = 0
    /\ promptIdx = 0 /\ attempt = 0 /\ outcomes = <<>> /\ requests = 0
    /\ sleeps = 0 /\ g_story = "unset"
    /\ started = FALSE

\* Storybook.__init__ (lines 226-332) has run: the listener and the NeoPixel
\* strip are present or failed to initialise
InitUi ==
    /\ program = "ui" /\ pc = "run"
    /\ MODE = "local"
    /\ \E present \in BOOLEAN :
        listener = [present |-> present, microphone |-> present]
    /\ pixels \in BOOLEAN
    /\ status = IF pixels THEN "loading" ELSE "none"
    /\ wrap = NoWrap /\ text = <<>>

\* storybook.py main starts; config.MODE is written by the setup scripts
InitConsole ==
    /\ program = "console" /\ pc = "c_main"
    /\ MODE \in {"local", "server"}
    /\ listener = [present |-> FALSE, microphone |-> FALSE]
    /\ pixels = FALSE
    /\ status = "none"
    /\ wrap = NoWrap /\ text = <<>>

Init == InitShared /\ (InitUi \/ InitConsole)

Next ==
    \/ c_main_start \/ c_generate_story \/ g_post \/ g_sleep \/ c_main_next
    \/ run_welcome \/ run_first_story \/ loop_poll \/ handle_event \/ button_step
    \/ ns_unavailable \/ ns_start_listening \/ ns_join_timeout \/ ns_join_done
    \/ ns_wait_poll \/ ns_wait_event
    \/ gen_call \/ gen_response \/ ns_commit \/ load_step
    \/ \E w \in Workers : w_settle(w) \/ w_callback(w) \/ w_listen(w)
    \/ cleanup_handler \/ cleanup_begin \/ cleanup_finish

Spec == Init /\ [][Next]_vars


\* thread.join(timeout=VOICE_TIMEOUT) returns: the foreground thread, once it
\* waits in the join, goes on; nothing is assumed of the listen threads
JoinReturns == ns_join_timeout \/ ns_join_done

SpecJoin == Init /\ [][Next]_vars /\ WF_vars(JoinReturns)

\* the foreground thread, once it is at the loop test of run or in _cleanup,
\* goes on: neither waits for anything but the clock
SpecShutdown ==
    /\ Init /\ [][Next]_vars
    /\ WF_vars(loop_poll) /\ WF_vars(cleanup_begin) /\ WF_vars(cleanup_finish)

\* storybook.py alone
NextConsole ==
    \/ c_main_start \/ c_generate_story \/ g_post \/ g_sleep \/ c_main_next

InitConsoleOnly == InitShared /\ InitConsole

SpecConsole == InitConsoleOnly /\ [][NextConsole]_vars

\* new_story at line 728, about to call generate_story for the first story
\* (run -> new_story, a prompt was heard, display_loading was shown)
AtGenerateCall ==
    /\ program = "ui" /\ pc = "gen_call" /\ MODE = "local" /\ raised = "none"
    /\ stories = <<>> /\ pages = <<>> /\ current_page = 0 /\ current_story = 0
    /\ _running = TRUE /\ _busy = FALSE /\ _sleep_request = FALSE
    /\ _corner_taps = <<>>
    /\ listener = [present |-> TRUE, microphone |-> TRUE]
    /\ pixels = FALSE /\ status = "none"
    /\ screen = "loading"
    /\ visible = [back |-> FALSE, next |-> FALSE, new |-> FALSE]
    /\ batch = 0 /\ event = NullEvent /\ btn = 0 /\ caller = "run"
    /\ inner = 0 /\ wevent = NullEvent
    /\ workers = [w \in Workers |-> NoWorker]
    /\ cur = 0 /\ prompt = "text" /\ story = UnsetStory
    /\ ld = NoLoad
    /\ cleanups = 0
    /\ promptIdx = 0 /\ attempt = 0 /\ outcomes = <<>> /\ requests = 0
    /\ sleeps = 0 /\ g_story = "unset"
    /\ started = TRUE
    /\ wrap = NoWrap /\ text = <<>>

\* the two generation clients alone: storybook.py, and Storybook.generate_story
\* from its call in new_story to its return, with the signal handler
InitGenerate == InitConsoleOnly \/ AtGenerateCall

NextGenerate == NextConsole \/ gen_call \/ gen_response \/ cleanup_handler

SpecGenerate == InitGenerate /\ [][NextGenerate]_vars

\* the measured story texts load_story is given when it is looked at alone
TitleLines == {1, 2, MaxTitleLines}
ParaLines == {1, 12, MaxParaLines}
LoadStories ==
    {[id |-> "text", title |-> t, paras |-> p] :
        t \in TitleLines, p \in UNION {[1..n -> ParaLines] : n \in 1..MaxParas}}

\* new_story at line 730 for the first story (run -> new_story, a prompt was
\* heard, generate_story returned a text)
AtCommit ==
    /\ program = "ui" /\ pc = "ns_commit" /\ MODE = "local" /\ raised = "none"
    /\ stories = <<>> /\ pages = <<>> /\ current_page = 0 /\ current_story = 0
    /\ _running = TRUE /\ _busy = FALSE /\ _sleep_request = FALSE
    /\ _corner_taps = <<>>
    /\ listener = [present |-> TRUE, microphone |-> TRUE]
    /\ pixels = FALSE /\ status = "none"
    /\ screen = "loading"
    /\ visible = [back |-> FALSE, next |-> FALSE, new |-> FALSE]
    /\ batch = 0 /\ event = NullEvent /\ btn = 0 /\ caller = "run"
    /\ inner = 0 /\ wevent = NullEvent
    /\ workers = [w \in Workers |-> NoWorker]
    /\ cur = 0 /\ prompt = "text" /\ story \in LoadStories
    /\ ld = NoLoad
    /\ cleanups = 0
    /\ promptIdx = 0 /\ attempt = 0 /\ outcomes = <<>> /\ requests = 0
    /\ sleeps = 0 /\ g_story = "unset"
    /\ started = TRUE
    /\ wrap = NoWrap /\ text = <<>>

\* load_story alone: from the commit of new_story to the return of load_story,
\* with the signal handler
NextLoad == ns_commit \/ load_step \/ cleanup_handler

SpecLoad == AtCommit /\ [][NextLoad]_vars

\* a call of a function of the text layer, without the rest of the controller
AtFunction ==
    /\ program = "ui" /\ MODE = "local"
    /\ listener = [present |-> FALSE, microphone |-> FALSE]
    /\ pixels = FALSE /\ status = "none"

\* _wrap_text is called with a text of up to MaxWords words
InitWrap ==
    /\ InitShared /\ AtFunction
    /\ pc = "wrap_text"
    /\ \E ws \in WordLists :
          wrap = [words |-> ws, i |-> 1, current_line |-> <<>>, lines |-> <<>>]
    /\ text = <<>>

NextWrap == wrap_step \/ wrap_return

SpecWrap == InitWrap /\ [][NextWrap]_vars

\* strip_markdown is called with a text of up to MaxText characters
InitStrip ==
    /\ InitShared /\ AtFunction
    /\ pc = "strip_markdown"
    /\ text \in Texts
    /\ wrap = NoWrap

NextStrip == strip_markdown

SpecStrip == InitStrip /\ [][NextStrip]_vars


(* ---------------------------------------------------------------------- *)
(* Properties                                                              *)
(* ---------------------------------------------------------------------- *)
\* the foreground thread is between two operations of the event loop
Idle == pc \in {"loop", "events", "buttons"}

\* C1: page-cursor invariant.  Whenever the page cache is non-empty and the
\* controller displays a page (a page is on the screen while the controller
\* idles, or display_current_page indexed the cache at line 557 and raised),
\* 0 <= current_page < len(pages).
C1_PageCursor ==
    (program = "ui" /\ pages # <<>>
        /\ ((screen = "page" /\ Idle) \/ raised = "IndexError"))
    => (0 <= current_page /\ current_page < Len(pages))

\* the button loop is about to run next_page on the last page of the last story
NextAtEnd ==
    /\ pc = "buttons" /\ Hit # {} /\ ButtonOrder[FirstHit] = "next"
    /\ current_page + 1 >= Len(pages)
    /\ ~(current_story < Len(stories) - 1)

\* C2: navigation end.  next_page on the last page of the last story invokes
\* new_story, leaves the story cursor where it is, and neither that call nor
\* the new_story it started ever raises.
C2_NavigationEnd ==
    [][/\ (NextAtEnd /\ button_step)
            => (caller' = "next_page" /\ current_story' = current_story
                /\ stories' = stories)
       /\ caller = "next_page" => raised' = "none"]_vars

\* this step calls thread.start() (line 642)
StartsWorker == pc = "ns_prompted" /\ pc' = "ns_join"

\* C3: single-flight.  Of the new-story requests that one poll of the input
\* source returned (all issued before the first of them was served), only one
\* starts a capture worker: once a worker was started, no step starts another
\* before the next poll.
C3_SingleFlight == [][started => ~StartsWorker]_vars

\* new_story is past its busy check and its pipeline has not ended
InPipeline ==
    \/ pc \in {"ns_prompted", "ns_join", "ns_wait", "gen_call", "gen_inflight",
               "ns_commit"}
    \/ pc = "load" /\ ld.ret = "new_story"

\* C4: BusyFlag coverage.  _busy is true in every state between new_story's
\* busy check and the end of its pipeline.
C4_BusyCoverage == InPipeline => _busy

\* this step issues the generation request (line 439)
IssuesRequest == pc = "gen_call" /\ pc' = "gen_inflight"

\* C5: terminal shutdown.  Once _running is false no step starts a capture
\* worker, issues a generation request or appends a story.
C5_TerminalShutdown ==
    [][~_running => (~StartsWorker /\ ~IssuesRequest /\ stories' = stories)]_vars

IsShutdownEvent(e) == e.type = "quit" \/ (e.type = "keydown" /\ e.key = "escape")

\* C6: shutdown reachability.  Every quit or ESC event the controller takes
\* from the input source, in the event loop or while it waits for a tap,
\* leaves _running false.
C6_ShutdownEventHonoured ==
    [][/\ (handle_event /\ IsShutdownEvent(event')) => ~_running'
       /\ (ns_wait_event /\ IsShutdownEvent(wevent')) => ~_running']_vars

ErrorMessages == {"msg_mic", "msg_voice_error", "msg_no_speech"}

\* the joined thread ended in time with a non-empty text
TextCaptured ==
    /\ workers[cur].pc = "exited" /\ ~workers[cur].error
    /\ HasPrompt(workers[cur].result)

\* C7: generation gating.  generate_story is called only with a text captured
\* in time; a capture that timed out, failed or heard nothing (no shutdown
\* having been requested) leads to an error message and the wait for a tap,
\* and when that wait ends the controller shows the current page if pages
\* exist and the welcome screen otherwise, without an error, a generation
\* request or an append.
C7_GenerationGating ==
    [][/\ (pc = "ns_join" /\ pc' \in {"gen_call", "gen_inflight"}) => TextCaptured
       /\ (pc = "ns_join" /\ pc' # "ns_join" /\ ~TextCaptured /\ ~_sleep_request)
            => (pc' = "ns_wait" /\ screen' \in ErrorMessages)
       /\ (pc = "ns_wait" /\ pc' # "ns_wait")
            => /\ raised' = "none"
               /\ screen' = IF pages = <<>> THEN "welcome" ELSE "page"
               /\ stories' = stories
               /\ pc' \notin {"gen_call", "gen_inflight"}]_vars

AllTimeouts(os) == \A i \in 1..Len(os) : os[i] = "timeout"

\* C8: retry bound (storybook.py).  generate_story never makes more than
\* MAX_RETRIES requests, sleeps only when another attempt follows, and when
\* every attempt timed out it has made exactly MAX_RETRIES requests and
\* MAX_RETRIES - 1 sleeps and returns the generic fallback text.
C8_RetryBound ==
    program = "console" =>
        /\ requests <= MAX_RETRIES
        /\ pc = "g_sleep" => requests < MAX_RETRIES
        /\ pc = "g_request" => sleeps = requests
        /\ (pc = "g_returned" /\ AllTimeouts(outcomes)) =>
                /\ requests = MAX_RETRIES
                /\ sleeps = MAX_RETRIES - 1
                /\ g_story = (IF MODE = "server" THEN "server_having_trouble"
                              ELSE "magic_had_a_hiccup")

\* C8 witness: generate_story returned after MAX_RETRIES timeouts
C8_Witness ==
    /\ program = "console" /\ pc = "g_returned"
    /\ Len(outcomes) = MAX_RETRIES /\ AllTimeouts(outcomes)

\* C9: no retry on an unreachable backend (storybook.py).  Once an attempt
\* ended in a connection error, generate_story has returned: it makes no
\* further request and does not sleep, and the value returned is the
\* server-mode sentence when MODE is "server" and the local-mode one otherwise.
C9_NoRetryUnreachable ==
    (program = "console" /\ outcomes # <<>>
        /\ outcomes[Len(outcomes)] = "connection_error")
    => /\ pc \in {"g_returned", "c_call", "done"}
       /\ requests = Len(outcomes)
       /\ sleeps = Len(outcomes) - 1
       /\ g_story = (IF MODE = "server" THEN "cant_reach_story_server"
                     ELSE "storyteller_is_sleeping")

\* C9 witness: a connection error at the last attempt, after timeouts, in server mode
C9_Witness ==
    /\ program = "console" /\ pc = "g_returned" /\ MODE = "server"
    /\ Len(outcomes) = MAX_RETRIES
    /\ outcomes[MAX_RETRIES] = "connection_error"

\* the story texts Storybook.generate_story can return
IsStoryText(v) == v \in BackendTexts \cup {OopsStory}

OtherFailure(o) == o \in {"http_error", "malformed"}

\* C11: other failures are not retried (storybook.py).  Once an attempt ended
\* with an HTTP error status or a response lacking the text field,
\* generate_story has returned: no further request was made, no sleep followed
\* the failure, and the value returned is the generic fallback sentence of the
\* mode, not an exception.
C11_OtherFailuresNotRetried ==
    (program = "console" /\ outcomes # <<>>
        /\ OtherFailure(outcomes[Len(outcomes)]))
    => /\ pc \in {"g_returned", "c_call", "done"}
       /\ raised = "none"
       /\ requests = Len(outcomes)
       /\ sleeps = Len(outcomes) - 1
       /\ g_story = (IF MODE = "server" THEN "server_having_trouble"
                     ELSE "magic_had_a_hiccup")

\* C11 witness: a malformed response at the second attempt, after one timeout
C11_Witness ==
    /\ program = "console" /\ pc = "g_returned"
    /\ outcomes = <<"timeout", "malformed">>


\* C12: commit point.  stories changes only by new_story's append (line 736),
\* made only when generate_story returned a text and _sleep_request was false
\* at the check of line 731; no step taken with _sleep_request set (an interrupt
\* observed during or after load_story) changes stories.
C12_CommitPoint ==
    [][/\ stories' # stories
            => /\ pc = "ns_commit" /\ ~_sleep_request /\ IsStoryText(story)
               /\ stories' = Append(stories, story)
       /\ _sleep_request => stories' = stories]_vars

\* C12 witness: the first story was appended, the interrupt arrived during
\* load_story and new_story returned (line 745) without displaying it
C12_Witness ==
    /\ program = "ui" /\ pc = "loop" /\ _sleep_request
    /\ Len(stories) = 1 /\ screen = "loading"


\* C13: append-only library.  Every step leaves stories as it is or adds one
\* element at its end; the elements it had stay where and what they were.
C13_AppendOnly ==
    [][\/ stories' = stories
       \/ /\ Len(stories') = Len(stories) + 1
          /\ SubSeq(stories', 1, Len(stories)) = stories]_vars

\* C13 witness: a second, different story was appended, and previous_page went
\* back to the first story, reloaded it and displays it
C13_Witness ==
    /\ program = "ui" /\ Len(stories) = 2 /\ stories[1] # stories[2]
    /\ current_story = 0 /\ screen = "page" /\ Idle

\* C14: story-cursor invariant.  Whenever stories is non-empty,
\* 0 <= current_story < len(stories).
C14_StoryCursor ==
    (program = "ui" /\ stories # <<>>)
    => (0 <= current_story /\ current_story < Len(stories))

\* C14 witness: with two stories, next_page on the last page of the first one
\* (reached by going back) moved the cursor to the second and loads it
C14_Witness ==
    /\ program = "ui" /\ Len(stories) = 2 /\ current_story = 1
    /\ pc = "load" /\ ld.ret = "next_page"


\* the button loop is about to run previous_page on page 0 of story 0
RetreatAtStart ==
    /\ program = "ui" /\ pc = "buttons"
    /\ Hit # {} /\ ButtonOrder[FirstHit] = "back"
    /\ current_story = 0 /\ current_page = 0

\* C15: retreat at the start is a no-op.  previous_page invoked with
\* current_story = 0 and current_page = 0 leaves current_story, current_page,
\* pages and stories unchanged; it redisplays the page and raises nothing.
C15_RetreatAtStartNoOp ==
    [][(RetreatAtStart /\ button_step)
        => /\ UNCHANGED <<current_story, current_page, pages, stories>>
           /\ raised' = "none" /\ screen' = "page"]_vars

\* C15 witness: the Back button, shown since a later page was displayed, is
\* tapped while page 0 of story 0 is displayed
C15_Witness == RetreatAtStart /\ screen = "page" /\ visible.back


\* C17: the interrupt flag is monotone.  _sleep_request starts false; the
\* signal handler and _cleanup leave it true; and no step of any action takes
\* it from true back to false.
C17_InterruptMonotone ==
    /\ ~_sleep_request
    /\ [][/\ _sleep_request => _sleep_request'
          /\ (cleanup_handler \/ cleanup_begin) => _sleep_request']_vars

\* C17 witness: the flag was set and the program ran on to the end of its
\* last _cleanup with the flag still set
C17_Witness ==
    /\ program = "ui" /\ _sleep_request
    /\ pc = "done" /\ cleanups = CLEANUP_CALLS


\* the listen threads that were started and have not ended
AliveWorkers == {w \in Workers : workers[w].pc \in {"settle", "callback", "listen"}}

\* C18: at most one capture worker.  At most one listen thread is alive, and
\* one is alive only while new_story is in its capturing step (between
\* thread.start() and the return of thread.join()); so none is started while
\* a thread abandoned after a timeout still runs.
C18_AtMostOneWorker ==
    program = "ui" =>
        /\ Cardinality(AliveWorkers) <= 1
        /\ AliveWorkers # {} => pc = "ns_join"

\* listen thread w was given up by new_story (its join timed out) and still runs
Abandoned(w) == w \in AliveWorkers /\ w # cur

\* C19: an abandoned worker is inert.  No step of a listen thread that
\* new_story gave up after a timeout changes what the controller shows or
\* holds: the status indicator, the screen, stories, pages, the captured
\* prompt, the generated story and the controller's position stay as they are.
C19_AbandonedWorkerInert ==
    [][\A w \in Workers :
          (Abandoned(w) /\ (w_settle(w) \/ w_callback(w) \/ w_listen(w)))
          => UNCHANGED <<status, screen, stories, pages, prompt, story, pc>>]_vars

\* C20: the ready callback respects cancellation.  No step of the ready
\* callback taken with _sleep_request true switches the status indicator to
\* the Waiting colour.
C20_ReadyCallbackCancelled ==
    [][\A w \in Workers :
          (w_callback(w) /\ _sleep_request)
          => ~(status' = "waiting" /\ status # "waiting")]_vars


\* C21: bounded capture wait.  Once new_story waits in the join it leaves the
\* join, also when the listen thread never ends; and when it leaves with the
\* thread still alive, the capture counts as timed out: the microphone message
\* is shown and new_story waits for a tap.
C21_BoundedCaptureWait ==
    /\ (program = "ui" /\ pc = "ns_join") ~> (pc # "ns_join")
    /\ [][(pc = "ns_join" /\ pc' # "ns_join" /\ workers[cur].pc # "exited")
            => (pc' = "ns_wait" /\ screen' = "msg_mic" /\ ~_busy')]_vars

\* C21 witness: new_story shows the microphone message and waits for a tap
\* while the listen thread it gave up is still alive
C21_Witness ==
    /\ program = "ui" /\ pc = "ns_wait" /\ screen = "msg_mic"
    /\ AliveWorkers # {}


\* run reached its loop test with shutdown requested, or _cleanup was entered
ShutdownUnderWay ==
    program = "ui" /\ (pc \in {"cleanup", "cleanup_wait"} \/ (pc = "loop" /\ ~_running))

\* C22: shutdown liveness.  Once run sees the shutdown request, or _cleanup is
\* entered in any other way, the last _cleanup completes (pygame quit), also
\* when _busy is true and never clears and when an abandoned listen thread
\* never ends.
C22_ShutdownLiveness == ShutdownUnderWay ~> (pc = "done" /\ screen = "closed")

\* C22 witness: cleanup completed although _busy is still true and a listen
\* thread given up after a timeout is still alive
C22_Witness ==
    /\ program = "ui" /\ pc = "done" /\ screen = "closed"
    /\ _busy /\ AliveWorkers # {}


\* handle_events takes a pointer-down in the secret-exit corner from the list
CornerTapStep ==
    /\ handle_event /\ batch > 0
    /\ event'.type = "mousedown" /\ event'.button = 1 /\ InCorner(event'.pos)

\* the taps of the list that are younger than the 3 seconds, d half seconds on
StillYoung(d) == {i \in 1..Len(_corner_taps) : _corner_taps[i] + d < CORNER_WINDOW}

\* C23: secret exit window.  A corner tap is appended, the taps of age 3
\* seconds or more are pruned, and the tap requests shutdown exactly when at
\* least 3 taps remain: the taps left are the new one and the earlier ones
\* still younger than 3 seconds, and _running is cleared if and only if those
\* are 3 or more.  So taps at t, t+1.0, t+2.5 (ages 2.5, 1.5, 0) request
\* shutdown, and of taps at t, t+1.0, t+3.5 the third (ages 2.5, 0 left) does not.
C23_SecretExitWindow ==
    [][CornerTapStep =>
         /\ \E d \in Elapsed :
               /\ Len(_corner_taps') = Cardinality(StillYoung(d)) + 1
               /\ \A k \in 1..Len(_corner_taps') : _corner_taps'[k] < CORNER_WINDOW
         /\ _corner_taps'[Len(_corner_taps')] = 0
         /\ _running' = (_running /\ Len(_corner_taps') < CORNER_TAPS_TO_EXIT)
         /\ (_corner_taps = <<2, 0>> /\ _corner_taps' = <<5, 3, 0>>) => ~_running'
         /\ (_corner_taps = <<2, 0>> /\ _corner_taps' = <<5, 0>>) => _running' = _running
      ]_vars

\* C23 witness: the third of the taps at t, t+1.0, t+2.5 has asked for shutdown
C23_Witness ==
    /\ program = "ui" /\ _corner_taps = <<5, 3, 0>> /\ ~_running
    /\ event.type = "mousedown" /\ InCorner(event.pos)


\* the loop of lines 775-777 calls the action of a button
CallsAction == button_step /\ Hit # {}

\* the loop is past the first button whose bounds hold the position of the
\* event: it only gets there when the action of a button has returned
PastFirstMatch == btn > NextButton(0, event.pos)

\* C24: first match wins.  One pointer-down calls the action of at most one
\* button, wherever the tap is, the edge two adjacent buttons share included:
\* once the action of a button has returned, the loop over the buttons calls
\* no other action for the same event.
C24_FirstMatchWins == [][~(CallsAction /\ PastFirstMatch)]_vars


\* display_current_page lines 560-565 and display_message: button b is drawn
\* on the screen now displayed
Drawn(b) ==
    /\ screen = "page"
    /\ b = "back" => (current_page > 0 \/ current_story > 0)

\* C25: only visible buttons are hit-testable.  The action of a button is
\* called for a pointer-down only if the button is drawn on the screen now
\* displayed: not Back while page 0 of story 0 is displayed, and no button
\* while the welcome screen is shown.  Stated for the first action an event
\* leads to, with no interrupt requested.
C25_OnlyDrawnButtons ==
    [][(CallsAction /\ ~PastFirstMatch /\ ~_sleep_request)
          => Drawn(ButtonOrder[FirstHit])]_vars


\* this step is the return of load_story (line 499 or the end of the function)
LoadReturns == load_step /\ ld' = NoLoad

PageFits(p) ==
    /\ \A i \in 1..Len(p.title) : p.title[i] + TitleLineH <= PageHeight
    /\ \A i \in 1..Len(p.lines) : p.lines[i] + TextLineH <= PageHeight

\* C27: page bound.  On every page load_story produced, every title line and
\* every body line ends at or above the page height, whatever the length of
\* the title and of the body (the line heights are below the page height).
C27_PageBound ==
    program = "ui" => \A i \in 1..Len(pages) : PageFits(pages[i])


RECURSIVE Flatten(_)
\* the words of a list of lines, read in order
Flatten(ls) == IF ls = <<>> THEN <<>> ELSE Head(ls) \o Flatten(Tail(ls))

\* word w is wider than the width _wrap_text wraps to
TooWide(w) == w.size > WrapWidth

\* C28: no word is dropped or truncated by wrapping.  The words of the lines
\* _wrap_text returns, read in order, are the words of its input, each whole;
\* a word wider than the width is alone on its line.  While the loop runs, the
\* lines so far and the line in progress hold the words already looked at.
C28_NoWordDropped ==
    /\ pc = "wrap_text" =>
          Flatten(wrap.lines) \o wrap.current_line
              = SubSeq(wrap.words, 1, wrap.i - 1)
    /\ pc = "wrapped" =>
          /\ Flatten(wrap.lines) = wrap.words
          /\ \A k \in 1..Len(wrap.lines) :
                /\ wrap.lines[k] # <<>>
                /\ (\E n \in 1..Len(wrap.lines[k]) : TooWide(wrap.lines[k][n]))
                      => Len(wrap.lines[k]) = 1

\* C28 witness: _wrap_text returned three lines for three words, the second
\* wider than the width
C28_Witness ==
    /\ pc = "wrapped" /\ Len(wrap.words) = 3 /\ TooWide(wrap.words[2])
    /\ Len(wrap.lines) = 3 /\ wrap.lines[2] = <<wrap.words[2]>>


RECURSIVE PlaceParas(_, _)
\* load_story lines 495-515 with no interrupt: the paragraphs laid out in turn
\* (the comparison has the layout of a paragraph worked out before the next
\* paragraph is begun; both branches continue in the same way)
PlaceParas(paras, st) ==
    IF paras = <<>> THEN st
    ELSE LET placed == PlaceLines(Head(paras), st)
         IN IF placed = st
            THEN PlaceParas(Tail(paras), [st EXCEPT !.y = @ + PARAGRAPH_SPACING])
            ELSE PlaceParas(Tail(paras), [placed EXCEPT !.y = @ + PARAGRAPH_SPACING])

\* the pages of story text t: load_story lines 489-517 run to the end
Paginate(t) ==
    LET st == PlaceParas(t.paras, [pages |-> <<>>, page |-> create_page(t.title),
                                   y |-> TitleLineH + PARAGRAPH_SPACING])
    IN Append(st.pages, st.page)

IsPrefix(a, b) == Len(a) <= Len(b) /\ a = SubSeq(b, 1, Len(a))

C30_StrippingTotal ==
    pc = "stripped" => \A k \in 1..Len(text) : text[k] \notin {"#", "*"}


\* new_story is past its listener check: capture, generation or loading
PastListenerCheck ==
    pc \in {"ns_prompted", "ns_join", "ns_wait", "gen_call", "gen_inflight",
            "ns_commit", "load"}

\* C31: capture unavailable degrades gracefully.  With no listener
\* (VoiceListener() failed in __init__) a new_story request shows the
\* "not available" message, never gets past the listener check (no listen
\* thread, no generation, no story), raises nothing, and its return leaves
\* the welcome screen or the page on display, the controller where the
\* caller goes on and _running as it was.
C31_NoListenerDegrades ==
    /\ [](program = "ui" /\ ~listener.present =>
            /\ ~PastListenerCheck /\ ~started /\ stories = <<>>
            /\ \A w \in Workers : workers[w] = NoWorker
            /\ raised = "none"
            /\ pc = "ns_nolistener" => screen = "msg_unavailable" /\ ~_busy)
    /\ [][ns_unavailable =>
            /\ screen' \in {"welcome", "page"}
            /\ pc' \in {"loop", "events", "buttons"}
            /\ _running' = _running /\ ~_busy' /\ caller' = "none"]_vars

\* C31 witness: with no listener, the new_story of run has returned to the
\* welcome screen and the event loop runs
C31_Witness ==
    /\ program = "ui" /\ ~listener.present /\ ~_sleep_request /\ _running
    /\ pc = "events" /\ screen = "welcome"


\* the bottom of the title block of page p: _create_page lays the title lines
\* one title line height apart from y = 0
TitleBottom(p) == Len(p.title) * TitleLineH

\* C32: the title is stacked above the body.  On the first page load_story
\* produced, the first body line starts at or below the bottom of the whole
\* title block, however many lines the title wraps to.
C32_TitleAboveBody ==
    (program = "ui" /\ pages # <<>> /\ pages[1].lines # <<>>)
        => pages[1].lines[1] >= TitleBottom(pages[1])


\* listen_for_prompt returned None to the listen thread new_story joins
ReturnedNone(w) == workers'[w] = [pc |-> "exited", result |-> None, error |-> FALSE]

\* C33: cancellation checkpoints.  A listen thread that finds the interrupt
\* flag set at the checkpoint after the settle delay returns None without
\* going on to the microphone (so no failure to acquire it can end the call),
\* and one that finds it set after listening returns None without a text.
C33_CancellationCheckpoints ==
    [][\A w \in Workers :
          /\ (w = cur /\ w_settle(w) /\ _sleep_request) => ReturnedNone(w)
          /\ (w = cur /\ w_listen(w) /\ _sleep_request) => ReturnedNone(w)]_vars


\* this step releases a resource: the microphone and recognizer (line 810),
\* the status strip (lines 819-821) or the display (line 830)
ReleasesResource ==
    \/ listener.microphone /\ ~listener'.microphone
    \/ status # "off" /\ status' = "off"
    \/ screen # "closed" /\ screen' = "closed"

\* C34: shutdown ordering.  _cleanup sets _sleep_request first, then waits for
\* _busy or the grace period, and releases resources only after that wait: a
\* step that releases the microphone, the status strip or the display is the
\* step that follows the wait, taken with the flag set, and the step that
\* sets the flag and begins the wait releases nothing.
C34_ShutdownOrdering ==
    [][/\ cleanup_begin => (_sleep_request' /\ ~ReleasesResource)
       /\ ReleasesResource => (pc = "cleanup_wait" /\ _sleep_request)]_vars


\* what a call of _cleanup leaves: the flag set, the microphone dropped, the
\* strip off, the display closed
CleanedUp ==
    /\ _sleep_request /\ ~listener.microphone
    /\ status = SetStatus("off") /\ screen = "closed"

\* C35: release is idempotent.  Every call of _cleanup (and with it of
\* VoiceListener.cleanup) completes without raising and ends in the
\* cleaned-up state; a call after the first changes nothing the first call
\* left (the strip may only go from a colour a listen thread set since back
\* to off), so two calls leave what one call leaves.
C35_ReleaseIdempotent ==
    [][/\ (cleanup_begin \/ cleanup_finish) => raised' = raised
       /\ cleanup_finish => CleanedUp'
       /\ (cleanups >= 1 /\ (cleanup_begin \/ cleanup_finish)) =>
             /\ UNCHANGED <<listener, screen, flagVars, bookVars, pixels, visible>>
             /\ status' \in {status, SetStatus("off")}]_vars

\* C35 witness: main's finally has called _cleanup a second time, with a
\* listener that the first call had released
C35_Witness ==
    /\ program = "ui" /\ pc = "done" /\ cleanups = CLEANUP_CALLS
    /\ listener.present /\ CleanedUp


\* C36: greedy line fill.  In the lines _wrap_text returns, every line of more
\* than one word is no wider than the width, and every line, extended by a
\* space and the first word of the line after it, is wider than the width.
C36_GreedyFill ==
    pc = "wrapped" =>
        /\ \A k \in 1..Len(wrap.lines) :
              Len(wrap.lines[k]) > 1 => LineSize(wrap.lines[k]) <= WrapWidth
        /\ \A k \in 1..(Len(wrap.lines) - 1) :
              LineSize(Append(wrap.lines[k], Head(wrap.lines[k + 1]))) > WrapWidth

\* C36 witness: _wrap_text returned two lines, the first of several words
C36_Witness ==
    /\ pc = "wrapped" /\ Len(wrap.lines) = 2
    /\ Len(wrap.lines[1]) >= 2 /\ LineSize(wrap.lines[1]) = WrapWidth


\* the button loop is about to run previous_page on page 0 of a story that
\* has a story before it
PrevAcross ==
    /\ program = "ui" /\ pc = "buttons"
    /\ Hit # {} /\ ButtonOrder[FirstHit] = "back"
    /\ current_page = 0 /\ current_story > 0

\* the button loop is about to run next_page on the last page of a story that
\* has a story after it
NextAcross ==
    /\ program = "ui" /\ pc = "buttons"
    /\ Hit # {} /\ ButtonOrder[FirstHit] = "next"
    /\ pages # <<>> /\ current_page = Len(pages) - 1
    /\ current_story < Len(stories) - 1

\* the call of previous_page or next_page moves the story cursor by d and
\* begins loading, with new_story not invoked and stories as they were
CrossesBy(d, ret) ==
    /\ current_story' = current_story + d /\ stories' = stories
    /\ pc' = "load" /\ ld'.ret = ret /\ caller' = caller

\* the load of a cross-story move returns into previous_page or next_page
CrossReturns(ret) == LoadReturns /\ ld.ret = ret

C38_CacheCoherent ==
    (program = "ui" /\ Idle /\ stories # <<>> /\ _running /\ ~_sleep_request)
        => /\ 0 <= current_story /\ current_story < Len(stories)
           /\ pages = Paginate(StoryAt(current_story))


\* C38 witness: the controller idles on the first of two stories that
\* paginate differently, reached by going back, with its pages in the cache
C38_Witness ==
    /\ program = "ui" /\ pc = "events" /\ _running /\ ~_sleep_request
    /\ Len(stories) = 2 /\ current_story = 0
    /\ Paginate(stories[1]) # Paginate(stories[2])
    /\ pages = Paginate(stories[1])

====
